---- MODULE Spec2Model ----
(***************************************************************************)
(* The todo-service (src/todo-service.ts) and its telemetry bootstrap      *)
(* start() (src/tracer.ts, and the variant src/unnamed/part_000 that has   *)
(* neither the profiler nor the SIGINT handler).                           *)
(*                                                                         *)
(* Node runs every callback to completion, so one action is one callback:  *)
(* the code between two awaits.  Values produced by collaborators (axios,  *)
(* redis, the inbound request, the root sampler) are drawn with \E.        *)
(*                                                                         *)
(* Two specifications share the actions:                                   *)
(*   Spec           the listening service handling GET /todos requests     *)
(*   LifecycleSpec  the whole process: module load (start(), app.listen,   *)
(*                  init()), requests, the export timer and SIGINT         *)
(***************************************************************************)
EXTENDS Naturals, Sequences, FiniteSets

\* ---------------------------------------------------------------- bounds
NumReqs == 2            \* inbound requests of one run
MaxKeys == 1            \* keys redis.keys('todo:*') may return
LifecycleReqs == 1      \* requests of a run of the whole process

\* ------------------------------------------------------ program constants
TodoCount == 4          \* redis.set calls of init()

Reqs == 1..NumReqs

VARIABLES
    variant,        \* which start() is loaded: "tracer" or "part_000"
    bootPc,         \* position of the module load / the process
    sdk,            \* "unstarted", "running", "startFailed" (sdk.start() threw)
    logged,         \* what console.error reported
    failed,         \* components whose initialization threw (history)
    sigintHandler,  \* process.on('SIGINT') was registered
    profiler,       \* pyroscope: "off", "on", "stopped"
    initPc,         \* init(): "none", "awaiting", "done", "rejected"
    setsLeft,       \* redis.set promises of init() not yet fulfilled
    initSpan,       \* calls made on the 'Set default items' span
    initSampled,    \* root sampling decision of the init span
    queue,          \* BatchSpanProcessor: ended spans waiting for export
    exported,       \* spans handed to the trace exporter
    req,            \* per request: position and what the handler did
    httpCalls,      \* histogram http_calls: observations, by request
    redisCalls,     \* histogram redis_calls: operation labels, by request
    errorCount      \* counter error_count

lifecycleVars == <<variant, bootPc, sdk, logged, failed, sigintHandler, profiler>>
initVars == <<initPc, setsLeft, initSpan, initSampled>>
exportVars == <<queue, exported>>
metricVars == <<httpCalls, redisCalls, errorCount>>
vars == <<variant, bootPc, sdk, logged, failed, sigintHandler, profiler,
          initPc, setsLeft, initSpan, initSampled, queue, exported,
          req, httpCalls, redisCalls, errorCount>>

\* ------------------------------------------------- tracer.ts: instruments
\* trackHttpRequest: httpCalls.record(duration, {route, status, method}).
\* The observation is kept with the labels the claims read.
trackHttpRequest(obs, status, method) ==
    Append(obs, [status |-> status, method |-> method])

\* trackRedisCall: redisCalls.record(duration, {operation}).
trackRedisCall(obs, operation) == Append(obs, operation)

\* trackError: errorCount.add(1, {method, route}).
trackError(count) == count + 1

\* --------------------------------------------- tracer.ts: the SDK's wiring
\* The root sampler's decisions (./ourSampler): one decision per trace.
OurSampler == BOOLEAN

\* What an inbound traceparent header says about its trace.
Traceparents == {"none", "sampled", "unsampled"}

\* A sampler that asks the root sampler for every span.
ShouldSampleRootOnly(parent, rootDecision) == rootDecision

\* sampler: new ParentBasedSampler({ root: new OurSampler() }): a span with a
\* parent takes the parent's decision, a span without one the root sampler's.
ShouldSample(parent, rootDecision) ==
    IF parent = "none" THEN rootDecision ELSE parent = "sampled"

\* spanProcessors: [new BatchSpanProcessor(traceExporter)]: an ended span is
\* queued for export when it is sampled.
OnEnd(q, span, sampled) == IF sampled THEN q \cup {span} ELSE q

ServerSpan(r) == [kind |-> "server", req |-> r]
ApiSpan(r) == [kind |-> "api", req |-> r]
InitSpan == [kind |-> "init", req |-> 0]

\* ------------------------------------------------------ execution context
NoSpan == [traceId |-> 0, spanId |-> [kind |-> "none", req |-> 0], sampled |-> FALSE]
\* ROOT_CONTEXT: no span, no baggage.
RootContext == [span |-> NoSpan, baggage |-> <<>>]

\* The context the http instrumentation makes active for request r: its
\* server span (trace r) and the baggage extracted from the inbound headers.
\* Without a started SDK nothing is instrumented and the context is the root.
InboundContext(running, r, sampled, inboundBaggage) ==
    IF running
    THEN [span |-> [traceId |-> r, spanId |-> ServerSpan(r), sampled |-> sampled],
          baggage |-> inboundBaggage]
    ELSE RootContext

\* propagation.createBaggage({"user.plan": {value: "enterprise"}})
createBaggage == << <<"user.plan", "enterprise">> >>

\* propagation.setBaggage(context, baggage): a copy of the context carrying
\* this baggage (whatever baggage it carried before is replaced).
setBaggage(ctx, baggage) == [ctx EXCEPT !.baggage = baggage]

\* context.with(ctx, fn): the context fn sees as context.active().  The
\* context manager is registered by sdk.start(); without it active() is the
\* root context.
contextWith(running, ctx) == IF running THEN ctx ELSE RootContext

\* The span trace.getSpan(context.active()) returns: there is one when the
\* context carries a span.
HasActiveSpan(ctx) == ctx.span # NoSpan

\* propagation.inject(ctx, headers) with the composite W3C propagator:
\* traceparent is version-traceid-spanid-flags, baggage the key=value list.
\* A header is written only when the context carries the thing; without a
\* started SDK no propagator is registered and nothing is written.
inject(running, ctx) ==
    [traceparent |->
        IF running /\ ctx.span # NoSpan
        THEN <<"00", ctx.span.traceId, ctx.span.spanId,
               IF ctx.span.sampled THEN "01" ELSE "00">>
        ELSE <<>>,
     baggage |-> IF running THEN ctx.baggage ELSE <<>>]

\* The parent a span started in ctx has, as the sampler sees it.
ParentOf(ctx) ==
    IF ctx.span = NoSpan THEN "none"
    ELSE IF ctx.span.sampled THEN "sampled" ELSE "unsampled"

\* tracer.startSpan(name): the sampling decision of the new span.  Without a
\* started SDK the tracer is the no-op tracer: its spans are never sampled.
startSpanSampled(running, ctx, rootDecision) ==
    running /\ ShouldSample(ParentOf(ctx), rootDecision)


\* -------------------------------------------- todo-service.ts: the handler
\* Values that travel through the handler, all of one shape: an axios
\* response (data: the auth body, here the user of request r), a thrown
\* Error object, or a thrown value that is no Error object.
Response(r) == [type |-> "response", data |-> r]
ErrorValue(m) == [type |-> "Error", data |-> m]
NonErrorValue == [type |-> "string", data |-> 0]
InstanceOfError(v) == v.type = "Error"

\* What the awaited axios(...) promise can settle with for request r.
AuthOutcomes(r) ==
    {[kind |-> "ok", value |-> Response(r)],
     [kind |-> "throw", value |-> ErrorValue(1)],
     [kind |-> "throw", value |-> NonErrorValue]}

\* What an awaited redis.get(key) can settle with, for a key redis.keys has
\* just listed: the stored string, which is a JSON item or a string
\* JSON.parse rejects, or a rejection.
GetOutcomes == {"item", "badjson", "fault"}

\* Baggage an inbound request may carry.
InboundBaggages == {<<>>, << <<"tenant", "t1">> >>}

\* Response bodies, all of one shape.
JsonBody(todos, user) == [kind |-> "json", todos |-> todos, user |-> user]
ErrorBody == [kind |-> "error", todos |-> <<>>, user |-> 0]
StatusTextBody == [kind |-> "statusText", todos |-> <<>>, user |-> 0]

IdleReq ==
    [pc |-> "idle",          \* idle, auth, keys, get, sleep, done
     fail |-> FALSE,         \* req.query['fail']
     ctx |-> RootContext,    \* context.active() inside the handler's callback
     apiSampled |-> FALSE,   \* sampling decision of the Internal API Call span
     spanOps |-> <<>>,       \* calls made on the Internal API Call span
     authCalls |-> <<>>,     \* headers of the axios calls issued
     authOutcome |-> <<>>,   \* what axios settled with
     returned |-> <<>>,      \* what trackInternalApiCall returned
     caught |-> <<>>,        \* what the handler's catch received
     todoKeys |-> 0,         \* number of keys redis.keys returned
     getResults |-> <<>>,    \* what each redis.get returned
     todos |-> <<>>,         \* the handler's todos array (key indexes)
     redisOps |-> <<>>,      \* data-store operations started
     rootExc |-> 0,          \* recordException calls on the active span
     responses |-> <<>>,     \* responses sent
     finished |-> FALSE]     \* the response's 'finish' event fired

\* app.use order: the layers of the express stack.
Stack == <<"httpTracking", "errorTracking", "getTodos">>

\* express hands an error given to next(err) by layer i to the
\* error-handling layers registered after i.
ErrorLayersAfter(i) == {j \in (i + 1)..Len(Stack) : Stack[j] = "errorTracking"}

\* The error middleware: if (err) { trackError(...); next(err) }.
ErrorMiddleware(count, err) == IF err THEN trackError(count) ELSE count

\* The route handler answers its failures itself (res.sendStatus(500),
\* res.status(500).json) and never calls next(err).
HandlerCallsNext == FALSE

\* error_count after the route handler (layer 3) failed.
AfterHandlerFailure(count) ==
    ErrorMiddleware(count, HandlerCallsNext /\ ErrorLayersAfter(3) # {})

\* A handler that runs its callback in the active context as it found it.
HandlerContextWithoutBaggage(running, active) == contextWith(running, active)

\* The context the handler's callback runs in: the active context with the
\* baggage user.plan=enterprise, made active by context.with.
HandlerContext(running, active) ==
    contextWith(running, setBaggage(active, createBaggage))

\* trackInternalApiCall, up to the await: start the span, inject the active
\* context into fresh headers, issue the axios call.
ApiCallStart(rq, running, rootDecision) ==
    [rq EXCEPT !.apiSampled = startSpanSampled(running, rq.ctx, rootDecision),
               !.spanOps = <<"start">>,
               !.authCalls = Append(@, inject(running, rq.ctx))]

\* trackInternalApiCall after the await, on a response: three attributes,
\* return the response; finally span.end().
ApiCallOk(ops, response) ==
    [ops |-> ops \o <<"setAttribute", "setAttribute", "setAttribute", "end">>,
     kind |-> "return", value |-> response]

\* trackInternalApiCall after the await, on a rejection: the catch records an
\* Error object and rethrows whatever it caught; finally span.end().
ApiCallFault(ops, error) ==
    [ops |-> (IF InstanceOfError(error)
              THEN ops \o <<"recordException", "setStatus:ERROR">>
              ELSE ops) \o <<"end">>,
     kind |-> "throw", value |-> error]

ApiCallSettle(ops, out) ==
    IF out.kind = "ok" THEN ApiCallOk(ops, out.value) ELSE ApiCallFault(ops, out.value)

\* The handler's catch: res.status(500).json({ error: ... }).
HandlerCatch(rq, error) ==
    [rq EXCEPT !.caught = Append(@, error),
               !.responses = Append(@, [status |-> 500, body |-> ErrorBody]),
               !.pc = "done"]

\* A simulated failure that lacks the return: res.json follows the 500.
SimulatedFailureFallsThrough(rq) ==
    [rq EXCEPT !.rootExc = IF HasActiveSpan(rq.ctx) THEN @ + 1 ELSE @,
               !.responses = @ \o <<[status |-> 500, body |-> StatusTextBody],
                                    [status |-> 200,
                                     body |-> JsonBody(rq.todos, rq.returned[1].data)]>>,
               !.pc = "done"]

\* The simulated failure: record the exception on the active span if there is
\* one, res.sendStatus(500), return.
SimulatedFailure(rq) ==
    [rq EXCEPT !.rootExc = IF HasActiveSpan(rq.ctx) THEN @ + 1 ELSE @,
               !.responses = Append(@, [status |-> 500, body |-> StatusTextBody]),
               !.pc = "done"]

\* res.json({ todos, user: userResponse.data })
SendTodos(rq) ==
    [rq EXCEPT !.responses =
                   Append(@, [status |-> 200,
                              body |-> JsonBody(rq.todos, rq.returned[1].data)]),
               !.pc = "done"]

\* The handler after its sleep, if any: the fail flag, then the answer.
Answer(rq) == IF rq.fail THEN SimulatedFailure(rq) ELSE SendTodos(rq)

\* The handler after the loop over the keys: if (req.query['slow']) await
\* sleep(5000).  The flag is read here and nowhere else.
AfterLoop(rq, slow) == IF slow THEN [rq EXCEPT !.pc = "sleep"] ELSE Answer(rq)

\* The loop body after an awaited redis.get returned `out` for key i: push a
\* non-null item (JSON.parse throws on a bad one), then the next key or the
\* end of the loop.
AfterGet(rq, out, slow) ==
    LET i == Len(rq.getResults) + 1
        got == [rq EXCEPT !.getResults = Append(@, out)]
    IN  IF out = "badjson" THEN HandlerCatch(got, ErrorValue(3))
        ELSE LET pushed == IF out = "item"
                           THEN [got EXCEPT !.todos = Append(@, i)]
                           ELSE got
             IN  IF i < rq.todoKeys
                 THEN [pushed EXCEPT !.redisOps = Append(@, "get"), !.pc = "get"]
                 ELSE AfterLoop(pushed, slow)

\* The handler after an awaited redis.keys returned n keys.
AfterKeys(rq, n, slow) ==
    LET got == [rq EXCEPT !.todoKeys = n]
    IN  IF n > 0
        THEN [got EXCEPT !.redisOps = Append(@, "get"), !.pc = "get"]
        ELSE AfterLoop(got, slow)

\* A listener that observes successful responses only.
OnFinishSuccessOnly(obs, status, method) ==
    IF status = 200 THEN trackHttpRequest(obs, status, method) ELSE obs

\* The 'finish' listener of the tracking middleware.
OnFinish(obs, status, method) == trackHttpRequest(obs, status, method)


\* ------------------------------------------------- requests: the callbacks
Serving == bootPc = "serving"
Running == sdk = "running"

\* An inbound GET /todos: the http instrumentation starts the server span,
\* the tracking middleware registers its 'finish' listener and calls next(),
\* the error middleware is passed over (there is no error), the route handler
\* builds its context and runs trackInternalApiCall up to the await of axios.
\* Requests are numbered in the order they arrive.
Arrive(r) ==
    /\ Serving
    /\ req[r].pc = "idle"
    /\ \A q \in Reqs : q < r => req[q].pc # "idle"
    /\ \E tp \in Traceparents, d \in OurSampler, d2 \in OurSampler,
          fail \in BOOLEAN, bg \in InboundBaggages :
          LET sampled == startSpanSampled(Running, RootContext, d)
                         /\ ShouldSample(tp, d)
              active == InboundContext(Running, r, sampled, bg)
              rq == [req[r] EXCEPT !.pc = "auth", !.fail = fail,
                                   !.ctx = HandlerContext(Running, active)]
          IN  req' = [req EXCEPT ![r] = ApiCallStart(rq, Running, d2)]
    /\ errorCount' = ErrorMiddleware(errorCount, FALSE)
    /\ UNCHANGED <<lifecycleVars, initVars, exportVars, httpCalls, redisCalls>>

\* The awaited axios call settles: trackInternalApiCall finishes, and the
\* handler either goes on to redis.keys or lands in its catch.
AuthSettles(r) ==
    /\ Serving
    /\ req[r].pc = "auth"
    /\ \E out \in AuthOutcomes(r) :
          LET done == ApiCallSettle(req[r].spanOps, out)
              rq == [req[r] EXCEPT !.spanOps = done.ops,
                                   !.authOutcome = Append(@, out)]
          IN  /\ req' = [req EXCEPT ![r] =
                    IF done.kind = "return"
                    THEN [rq EXCEPT !.returned = Append(@, done.value),
                                    !.redisOps = Append(@, "keys"),
                                    !.pc = "keys"]
                    ELSE HandlerCatch(rq, done.value)]
              /\ errorCount' = IF done.kind = "return" THEN errorCount
                               ELSE AfterHandlerFailure(errorCount)
    /\ queue' = OnEnd(queue, ApiSpan(r), req[r].apiSampled)
    /\ UNCHANGED <<lifecycleVars, initVars, exported, httpCalls, redisCalls>>

\* The awaited redis.keys settles.
KeysSettles(r) ==
    /\ Serving
    /\ req[r].pc = "keys"
    /\ \E ok \in BOOLEAN, n \in 0..MaxKeys, slow \in BOOLEAN :
          \* (a count or a flag the callback does not read is left at its default)
          /\ ~ok => n = 0
          /\ ~ok \/ n > 0 => ~slow
          /\ IF ok
             THEN /\ redisCalls' = [redisCalls EXCEPT ![r] = trackRedisCall(@, "keys")]
                  /\ req' = [req EXCEPT ![r] = AfterKeys(@, n, slow)]
                  /\ errorCount' = errorCount
             ELSE /\ redisCalls' = redisCalls
                  /\ req' = [req EXCEPT ![r] = HandlerCatch(@, ErrorValue(2))]
                  /\ errorCount' = AfterHandlerFailure(errorCount)
    /\ UNCHANGED <<lifecycleVars, initVars, exportVars, httpCalls>>

\* An awaited redis.get settles.
GetSettles(r) ==
    /\ Serving
    /\ req[r].pc = "get"
    /\ \E out \in GetOutcomes, slow \in BOOLEAN :
          \* (the flag is read only when the loop ends here)
          /\ out # "item" \/ Len(req[r].getResults) + 1 < req[r].todoKeys => ~slow
          /\ IF out = "fault"
             THEN /\ redisCalls' = redisCalls
                  /\ req' = [req EXCEPT ![r] = HandlerCatch(@, ErrorValue(2))]
                  /\ errorCount' = AfterHandlerFailure(errorCount)
             ELSE /\ redisCalls' = [redisCalls EXCEPT ![r] = trackRedisCall(@, "get")]
                  /\ req' = [req EXCEPT ![r] = AfterGet(@, out, slow)]
                  /\ errorCount' = IF out = "badjson"
                                   THEN AfterHandlerFailure(errorCount)
                                   ELSE errorCount
    /\ UNCHANGED <<lifecycleVars, initVars, exportVars, httpCalls>>

\* The sleep(5000) timer fires.
SleepDone(r) ==
    /\ Serving
    /\ req[r].pc = "sleep"
    /\ req' = [req EXCEPT ![r] = Answer(@)]
    /\ UNCHANGED <<lifecycleVars, initVars, exportVars, metricVars>>

\* The response has been written out: 'finish' fires, the listener records
\* the observation, and the http instrumentation ends the server span.
Finish(r) ==
    /\ Serving
    /\ req[r].responses # <<>>
    /\ ~req[r].finished
    /\ req' = [req EXCEPT ![r].finished = TRUE]
    /\ httpCalls' = [httpCalls EXCEPT ![r] =
                        OnFinish(@, req[r].responses[1].status, "GET")]
    /\ queue' = IF HasActiveSpan(req[r].ctx)
                THEN OnEnd(queue, ServerSpan(r), req[r].ctx.span.sampled)
                ELSE queue
    /\ UNCHANGED <<lifecycleVars, initVars, exported, redisCalls, errorCount>>

RequestStep(r) ==
    \/ Arrive(r)
    \/ AuthSettles(r)
    \/ KeysSettles(r)
    \/ GetSettles(r)
    \/ SleepDone(r)
    \/ Finish(r)

RequestNext == \E r \in Reqs : RequestStep(r)

\* ------------------------------------------------ the process: module load
\* start(): pyroscope.init({...}); pyroscope.start().  Only tracer.ts has it.
InitProfiler ==
    /\ bootPc = "profiler"
    /\ \E ok \in BOOLEAN :
          IF ok
          THEN /\ profiler' = "on"
               /\ bootPc' = "metricReaders"
               /\ failed' = failed
          ELSE /\ profiler' = profiler
               /\ bootPc' = "crashed"
               /\ failed' = failed \cup {"profiler"}
    /\ UNCHANGED <<variant, sdk, logged, sigintHandler, initVars, exportVars,
                   req, metricVars>>

\* start(): the Prometheus exporter, the OTLP metric exporter, the reader.
CreateMetricReaders ==
    /\ bootPc = "metricReaders"
    /\ \E ok \in BOOLEAN :
          IF ok
          THEN /\ bootPc' = "meterProvider"
               /\ failed' = failed
          ELSE /\ bootPc' = "crashed"
               /\ failed' = failed \cup {"metricReaders"}
    /\ UNCHANGED <<variant, sdk, logged, sigintHandler, profiler, initVars,
                   exportVars, req, metricVars>>

\* start(): the meter provider, its readers, the instruments.
WireMeterProvider ==
    /\ bootPc = "meterProvider"
    /\ \E ok \in BOOLEAN :
          IF ok
          THEN /\ bootPc' = "sdkConstruct"
               /\ failed' = failed
          ELSE /\ bootPc' = "crashed"
               /\ failed' = failed \cup {"meterProvider"}
    /\ UNCHANGED <<variant, sdk, logged, sigintHandler, profiler, initVars,
                   exportVars, req, metricVars>>

\* start(): the trace exporter, the span processor, new NodeSDK({...}).
CreateSdk ==
    /\ bootPc = "sdkConstruct"
    /\ \E ok \in BOOLEAN :
          IF ok
          THEN /\ bootPc' = "sdkStart"
               /\ failed' = failed
          ELSE /\ bootPc' = "crashed"
               /\ failed' = failed \cup {"sdkConstruct"}
    /\ UNCHANGED <<variant, sdk, logged, sigintHandler, profiler, initVars,
                   exportVars, req, metricVars>>

\* start(): try { sdk.start() } catch (error) { console.error(...) }.
SdkStart ==
    /\ bootPc = "sdkStart"
    /\ \E ok \in BOOLEAN :
          IF ok
          THEN /\ sdk' = "running"
               /\ UNCHANGED <<logged, failed>>
          ELSE /\ sdk' = "startFailed"
               /\ logged' = logged \cup {"sdk.start"}
               /\ failed' = failed \cup {"sdk.start"}
    /\ bootPc' = "return"
    /\ UNCHANGED <<variant, sigintHandler, profiler, initVars, exportVars,
                   req, metricVars>>

\* start(): process.on('SIGINT', ...) (tracer.ts only), then the return of
\* the tracking functions.
StartReturns ==
    /\ bootPc = "return"
    /\ sigintHandler' = (variant = "tracer")
    /\ bootPc' = "returned"
    /\ UNCHANGED <<variant, sdk, logged, failed, profiler, initVars, exportVars,
                   req, metricVars>>

\* The rest of the module: the middlewares and the route are registered,
\* app.listen(8080), and init() runs up to its await: the 'Set default items'
\* span is started and the redis.set calls are issued.
ServiceListens ==
    /\ bootPc = "returned"
    /\ bootPc' = "serving"
    /\ initPc' = "awaiting"
    /\ setsLeft' = TodoCount
    /\ initSpan' = <<"start">>
    /\ \E d \in OurSampler :
          initSampled' = startSpanSampled(Running, RootContext, d)
    /\ UNCHANGED <<variant, sdk, logged, failed, sigintHandler, profiler,
                   exportVars, req, metricVars>>

\* One redis.set of init() settles.  Promise.all fulfils with the last
\* fulfilment, and the callback goes on to span.end(); it rejects with the
\* first rejection, and the callback ends there.  Nothing handles that
\* rejection: depending on the runtime's unhandled-rejection mode the process
\* is ended by it or goes on.
SetSettles ==
    /\ Serving
    /\ initPc = "awaiting"
    /\ \E ok \in BOOLEAN, dies \in BOOLEAN :
          IF ok
          THEN /\ setsLeft' = setsLeft - 1
               /\ initPc' = IF setsLeft = 1 THEN "done" ELSE initPc
               /\ initSpan' = IF setsLeft = 1 THEN Append(initSpan, "end")
                              ELSE initSpan
               /\ queue' = IF setsLeft = 1
                           THEN OnEnd(queue, InitSpan, initSampled)
                           ELSE queue
               /\ bootPc' = bootPc
          ELSE /\ setsLeft' = setsLeft - 1
               /\ initPc' = "rejected"
               /\ initSpan' = initSpan
               /\ queue' = queue
               /\ bootPc' = IF dies THEN "aborted" ELSE bootPc
    /\ UNCHANGED <<variant, sdk, logged, failed, sigintHandler, profiler,
                   initSampled, exported, req, metricVars>>

\* The batch span processor's timer: the queued spans go to the exporter.
ExportTimer ==
    /\ Serving
    /\ queue # {}
    /\ exported' = exported \cup queue
    /\ queue' = {}
    /\ UNCHANGED <<lifecycleVars, initVars, req, metricVars>>

\* SIGINT.  tracer.ts: the handler stops the profiler and calls
\* process.exit(0).  part_000 registers no handler: the signal ends the
\* process.  Neither shuts the SDK down.
Sigint ==
    /\ Serving
    /\ profiler' = IF sigintHandler THEN "stopped" ELSE profiler
    /\ bootPc' = "exited"
    /\ UNCHANGED <<variant, sdk, logged, failed, sigintHandler, initVars,
                   exportVars, req, metricVars>>

\* ----------------------------------------------------------- specifications
ReqInit ==
    /\ req = [r \in Reqs |-> IdleReq]
    /\ httpCalls = [r \in Reqs |-> <<>>]
    /\ redisCalls = [r \in Reqs |-> <<>>]
    /\ errorCount = 0

\* The process as node starts it.
LifecycleInit ==
    /\ variant \in {"tracer", "part_000"}
    /\ bootPc = IF variant = "tracer" THEN "profiler" ELSE "metricReaders"
    /\ sdk = "unstarted"
    /\ logged = {}
    /\ failed = {}
    /\ sigintHandler = FALSE
    /\ profiler = "off"
    /\ initPc = "none"
    /\ setsLeft = 0
    /\ initSpan = <<>>
    /\ initSampled = FALSE
    /\ queue = {}
    /\ exported = {}
    /\ ReqInit

LifecycleNext ==
    \/ InitProfiler
    \/ CreateMetricReaders
    \/ WireMeterProvider
    \/ CreateSdk
    \/ SdkStart
    \/ StartReturns
    \/ ServiceListens
    \/ SetSettles
    \/ ExportTimer
    \/ Sigint
    \/ \E r \in 1..LifecycleReqs : RequestStep(r)

LifecycleSpec == LifecycleInit /\ [][LifecycleNext]_vars

\* The service of todo-service.ts (tracer.ts) listening, init() behind it
\* with its span sampled out: sdk.start() succeeded, or threw and was logged.
Init ==
    /\ variant = "tracer"
    /\ bootPc = "serving"
    /\ sdk \in {"running", "startFailed"}
    /\ logged = IF sdk = "startFailed" THEN {"sdk.start"} ELSE {}
    /\ failed = logged
    /\ sigintHandler = TRUE
    /\ profiler = "on"
    /\ initPc = "done"
    /\ setsLeft = 0
    /\ initSpan = <<"start", "end">>
    /\ initSampled = FALSE
    /\ queue = {}
    /\ exported = {}
    /\ ReqInit

Next == RequestNext

Spec == Init /\ [][Next]_vars

\* The event loop runs every callback that is ready, and the awaited calls
\* (axios, redis, the sleep timer, the response's write) settle.
Continue(r) ==
    AuthSettles(r) \/ KeysSettles(r) \/ GetSettles(r) \/ SleepDone(r) \/ Finish(r)

FairSpec == Spec /\ \A r \in Reqs : WF_vars(Continue(r))


\* ------------------------------------------------------------------ claims
Status(r) == req[r].responses[1].status
Body(r) == req[r].responses[1].body
Count(seq, x) == Cardinality({i \in 1..Len(seq) : seq[i] = x})
Front(seq) == SubSeq(seq, 1, Len(seq) - 1)

\* The keys whose redis.get returned an item, in the order read.
ItemsRead(results) ==
    LET F[i \in 0..Len(results)] ==
            IF i = 0 THEN <<>>
            ELSE IF results[i] = "item" THEN Append(F[i - 1], i) ELSE F[i - 1]
    IN  F[Len(results)]

\* redis.keys of request r returned.
KeysReturned(r) ==
    \/ Len(req[r].redisOps) >= 2
    \/ req[r].pc = "sleep"
    \/ req[r].pc = "done" /\ Body(r).kind # "error"

\* The redis_calls observations of the data-store operations that returned.
ReturnedOps(r) ==
    IF KeysReturned(r)
    THEN <<"keys">> \o [i \in 1..Len(req[r].getResults) |-> "get"]
    ELSE <<>>

\* C1: under any interleaving of requests, http_calls holds exactly one
\* observation for each request whose response finished, with the status
\* that response carried (200 or 500), and none for a request whose response
\* has not finished.
C1_OneHttpObservationPerCompletedRequest ==
    \A r \in Reqs :
        /\ Len(httpCalls[r]) = IF req[r].finished THEN 1 ELSE 0
        /\ req[r].finished =>
              /\ httpCalls[r][1].status = Status(r)
              /\ Status(r) \in {200, 500}

\* C1 witness: the second request finished with 200 and was observed once
\* while the first, which arrived before it, finished with 500 or is still
\* waiting for the data store.
C1_Witness ==
    /\ req[2].finished /\ Status(2) = 200 /\ Len(httpCalls[2]) = 1
    /\ req[1].pc = "get" /\ httpCalls[1] = <<>>

\* C2: error_count is incremented exactly once for every request that
\* completes with status 500, and never for one that completes with 200: it
\* never exceeds the number of 500 responses sent and has reached the number
\* of 500 responses finished.
C2_ErrorCountedOncePerFailedRequest ==
    /\ errorCount <= Cardinality({r \in Reqs : req[r].responses # <<>>
                                                /\ Status(r) = 500})
    /\ errorCount >= Cardinality({r \in Reqs : req[r].finished
                                                /\ Status(r) = 500})

\* What C3 says of every request in every state: at most one response, one
\* as soon as the handler is through, 500 after a fault, 200 with the items
\* read and the auth body otherwise.
C3_Common(r) ==
    /\ Len(req[r].responses) = IF req[r].pc = "done" THEN 1 ELSE 0
    /\ req[r].pc = "done" =>
          IF req[r].caught # <<>> \/ req[r].fail
          THEN Status(r) = 500
          ELSE /\ Status(r) = 200
               /\ Len(req[r].getResults) = req[r].todoKeys
               /\ Body(r) = JsonBody(ItemsRead(req[r].getResults),
                                     req[r].authOutcome[1].value.data)

\* C3 as claimed: ... and whenever the fail flag is set, exactly one
\* exception is recorded on the active span and res.json is never called.
C3_Original ==
    \A r \in Reqs :
        /\ C3_Common(r)
        /\ req[r].pc = "done" /\ req[r].fail =>
              /\ req[r].rootExc = 1
              /\ Body(r).kind = "statusText"

C3_Safety ==
    \A r \in Reqs :
        /\ C3_Common(r)
        /\ req[r].pc = "done" /\ req[r].caught # <<>> =>
              /\ req[r].rootExc = 0
              /\ Body(r) = ErrorBody
        /\ req[r].pc = "done" /\ req[r].caught = <<>> /\ req[r].fail =>
              /\ req[r].rootExc = IF Running THEN 1 ELSE 0
              /\ Body(r).kind = "statusText"
        /\ ~req[r].fail => req[r].rootExc = 0

\* C3, amended: every request is answered exactly once and never twice: a
\* request in flight always has its next callback ready to run, and once the
\* handler is through there is one response.  After a fault of the auth
\* call, of a data-store call or of JSON.parse it is the 500 of
\* res.status(500).json, fail flag or not, and nothing is recorded on the
\* active span.  Without a fault and with the fail flag it is the 500 of
\* res.sendStatus, res.json is never called and the exception is recorded
\* once on the active span if there is one (there is none when the SDK did
\* not start).  Otherwise it is 200 with the items read and the auth body.
C3_ExactlyOneResponse ==
    /\ C3_Safety
    /\ \A r \in Reqs :
          req[r].pc \in {"auth", "keys", "get", "sleep"} => ENABLED Continue(r)

\* C3, the progress half as a temporal property (under FairSpec): every
\* request that arrived is eventually answered.
C3_EventuallyAnswered ==
    \A r \in Reqs : (req[r].pc # "idle") ~> (Len(req[r].responses) = 1)

\* C3 witness: a request with the fail flag went through its reads and was
\* answered by res.sendStatus(500), the exception recorded once.
C3_Witness ==
    \E r \in Reqs :
        /\ req[r].pc = "done" /\ req[r].fail /\ req[r].caught = <<>>
        /\ req[r].getResults # <<>>
        /\ req[r].rootExc = 1 /\ Status(r) = 500

\* C4: every span the application starts is ended exactly once on every exit
\* of the work it measures: the Internal API Call span once axios has
\* settled either way, the Set default items span once the redis.set calls
\* have fulfilled or one has rejected.
C4_SpansEndedOnEveryExit ==
    /\ \A r \in Reqs :
          /\ Count(req[r].spanOps, "end") <= 1
          /\ req[r].authOutcome # <<>> => Count(req[r].spanOps, "end") = 1
    /\ Count(initSpan, "end") <= 1
    /\ initPc \in {"done", "rejected"} => Count(initSpan, "end") = 1

\* C5: the process never exits on the signal with ended spans still queued.
C5_FlushedBeforeExit == bootPc = "exited" => queue = {}

\* C6: a component of start() that fails to initialize is logged and does
\* not keep the service from listening.
C6_InitFailureNotFatal ==
    failed # {} => /\ failed \subseteq logged
                   /\ bootPc # "crashed"

\* C7: when the auth call faults, with whatever value, the span has the
\* exception recorded and the status set to error before it is ended, and the
\* caller catches that same value; when it succeeds the caller gets the
\* response and the status is never set to error.
C7_FaultRecordedAndPropagated ==
    \A r \in Reqs :
        req[r].authOutcome # <<>> =>
            LET out == req[r].authOutcome[1]
            IN  IF out.kind = "throw"
                THEN /\ req[r].spanOps =
                            <<"start", "recordException", "setStatus:ERROR", "end">>
                     /\ req[r].caught = <<out.value>>
                ELSE /\ req[r].returned = <<out.value>>
                     /\ Count(req[r].spanOps, "setStatus:ERROR") = 0
                     /\ Count(req[r].spanOps, "end") = 1

\* The headers injecting the context of request r gives: its own trace and
\* server span with that span's sampling flag, and the handler's baggage
\* entry; nothing when the SDK did not start (no context, no propagator).
OwnHeaders(r) ==
    IF Running
    THEN [traceparent |-> <<"00", r, ServerSpan(r),
                            IF req[r].ctx.span.sampled THEN "01" ELSE "00">>,
          baggage |-> << <<"user.plan", "enterprise">> >>]
    ELSE [traceparent |-> <<>>, baggage |-> <<>>]

C9_OneObservationPerOperation ==
    \A r \in Reqs :
        redisCalls[r] = IF req[r].pc \in {"keys", "get"}
                        THEN Front(req[r].redisOps)
                        ELSE req[r].redisOps

SampledOut(r) ==
    req[r].pc # "idle" /\ HasActiveSpan(req[r].ctx) /\ ~req[r].ctx.span.sampled

\* C10: when the root span of a request's trace is sampled out, neither its
\* Internal API Call span nor the root is ever queued or exported, and the
\* request's metrics are recorded all the same: one http_calls observation
\* once it finished, one redis_calls observation per operation that returned.
C10_SampledOutTraceExportsNothing ==
    \A r \in Reqs :
        SampledOut(r) =>
            /\ ApiSpan(r) \notin queue \cup exported
            /\ ServerSpan(r) \notin queue \cup exported
            /\ ~req[r].apiSampled
            /\ req[r].finished => Len(httpCalls[r]) = 1
            /\ redisCalls[r] = ReturnedOps(r)

\* C10 witness: a sampled-out request finished after reading an item, its
\* spans in no queue, its metrics recorded, while the spans of a sampled
\* request are queued.
C10_Witness ==
    /\ SampledOut(1) /\ req[1].finished
    /\ Count(redisCalls[1], "get") >= 1
    /\ Len(httpCalls[1]) = 1
    /\ ApiSpan(2) \in queue


====
